---- MODULE Spec2Model ----
(***************************************************************************)
(* State-machine model of the GraphGym training pipeline                   *)
(* (graphgym/train_pyg.py: train, train_nas) and of the DE-NAS correlation *)
(* driver (denas_corr.py).  Calls into collaborators (train_epoch,         *)
(* eval_epoch, save_ckpt, torch.save, loggers, logging) are recorded in    *)
(* program order in `trace`.                                               *)
(***************************************************************************)
EXTENDS Integers, Sequences, FiniteSets, TLC

\* ------------------------------------------------------------------ bounds
\* largest configured cfg.optim.max_epoch explored
MaxEpoch == 3
\* validation metric values range over 0..MaxMetric
MaxMetric == 2
\* number of candidate configuration files in the scanned folder
MaxFiles == 3

VARIABLES
    \* ---- configuration and collaborators of train / train_nas
    auto_resume,      \* cfg.train.auto_resume
    ckpt_clean,       \* cfg.train.ckpt_clean
    max_epoch,        \* cfg.optim.max_epoch
    ckpt_epoch,       \* the epoch load_ckpt returns when called
    evalEpochs,       \* the epochs on which is_eval_epoch is true
    ckptEpochs,       \* the epochs on which is_ckpt_epoch is true
    num_splits,       \* len(loggers)
    \* ---- locals of train / train_nas
    pc,
    start_epoch,
    cur_epoch,        \* Unbound until the for loop binds it
    trace,            \* collaborator calls so far, in program order
    \* ---- train_nas only
    best_val_result,
    model,            \* the in-memory model object
    model_file,       \* what is stored at model_path
    val_history,      \* stats[metric] of each validation pass, in order
    \* ---- denas_corr.py module level
    model_config_list,   \* the shuffled listing of the configuration folder
    file_config,         \* what yaml.safe_load returns for each file
    zen_score,           \* what zen_nas returns for a model built from a cfg
    model_key_dict,      \* the unpickled performance dictionary
    idx,                 \* position of the next candidate (1-based)
    cfg_file,            \* args.cfg_file
    train_score_list,
    denas_score_list,
    log                  \* what the logger has written, one entry per match

trainVars == <<auto_resume, ckpt_clean, max_epoch, ckpt_epoch, evalEpochs,
               ckptEpochs, num_splits, pc, start_epoch, cur_epoch, trace>>
nasVars == <<best_val_result, model, model_file, val_history>>
corrVars == <<model_config_list, file_config, zen_score, model_key_dict, idx,
              cfg_file, train_score_list, denas_score_list, log>>
vars == <<trainVars, nasVars, corrVars>>

\* ------------------------------------------------------------------ helpers
\* a name the for loop has not bound yet
Unbound == -1

\* one recorded collaborator call
Ev(op, split, epoch) == [op |-> op, split |-> split, epoch |-> epoch]

\* split_names = ['val', 'test']
split_names == <<"val", "test">>

\* graphgym.utils.epoch predicates: an external policy, a function of the epoch
is_eval_epoch(e) == e \in evalEpochs
is_ckpt_epoch(e) == e \in ckptEpochs

\* range(start_epoch, cfg.optim.max_epoch) yields e
InRange_inclusive(e, m) == e <= m
InRange(e, m) == e < m

\* start_epoch = 0; if auto_resume: start_epoch = load_ckpt(...)
ResumeEpoch(resume, saved) == IF resume THEN saved ELSE 0

\* the branch on start_epoch == cfg.optim.max_epoch: which message is logged
StartLog(s, m) ==
    IF s = m THEN Ev("log_already_done", "-", s) ELSE Ev("log_start_from", "-", s)

\* the inner loop of train: for i in range(1, num_splits): eval_epoch; write_epoch
\* (split_names[i - 1] of the 0-based list is split_names[i] of the 1-based tuple)
RECURSIVE EvalSplits(_, _, _)
EvalSplits(i, n, e) ==
    IF i >= n THEN <<>>
    ELSE <<Ev("eval_epoch", split_names[i], e), Ev("write_epoch", split_names[i], e)>>
         \o EvalSplits(i + 1, n, e)

\* if is_eval_epoch(cur_epoch): evaluate every non-training split
EvalCalls_always(e, n) == EvalSplits(1, n, e)
EvalCalls(e, n) == IF is_eval_epoch(e) THEN EvalSplits(1, n, e) ELSE <<>>

\* if is_ckpt_epoch(cur_epoch): save_ckpt(model, optimizer, scheduler, cur_epoch)
CkptCalls(e) == IF is_ckpt_epoch(e) THEN <<Ev("save_ckpt", "-", e)>> ELSE <<>>

\* for logger in loggers: logger.close()
RECURSIVE CloseLoggers(_, _)
CloseLoggers(i, n) ==
    IF i >= n THEN <<>> ELSE <<Ev("close", "logger", i)>> \o CloseLoggers(i + 1, n)

\* if cfg.train.ckpt_clean: clean_ckpt()
CleanCalls_always(clean) == <<Ev("clean_ckpt", "-", Unbound)>>
CleanCalls(clean) == IF clean THEN <<Ev("clean_ckpt", "-", Unbound)>> ELSE <<>>

\* ------------------------------------------------------------------ train
TrainConfigs ==
    /\ auto_resume \in BOOLEAN
    /\ ckpt_clean \in BOOLEAN
    /\ max_epoch \in 1..MaxEpoch
    /\ ckpt_epoch \in IF auto_resume THEN 0..(max_epoch + 1) ELSE {0}
    /\ evalEpochs \in SUBSET (0..(max_epoch - 1))
    /\ ckptEpochs \in SUBSET (0..(max_epoch - 1))

NasIdle ==
    /\ best_val_result = Unbound
    /\ model = [run |-> "none", trained |-> 0]
    /\ model_file = [run |-> "none", trained |-> 0]
    /\ val_history = <<>>

TrainIdle ==
    /\ auto_resume = FALSE
    /\ ckpt_clean = FALSE
    /\ max_epoch = 0
    /\ ckpt_epoch = 0
    /\ evalEpochs = {}
    /\ ckptEpochs = {}
    /\ num_splits = 0
    /\ start_epoch = 0
    /\ cur_epoch = Unbound
    /\ trace = <<>>

CorrIdle ==
    /\ model_config_list = <<>>
    /\ file_config = <<>>
    /\ zen_score = <<>>
    /\ model_key_dict = <<>>
    /\ idx = 0
    /\ cfg_file = 0
    /\ train_score_list = <<>>
    /\ denas_score_list = <<>>
    /\ log = <<>>

InitTrain ==
    /\ TrainConfigs
    /\ num_splits \in 1..3
    /\ pc = "start"
    /\ start_epoch = 0
    /\ cur_epoch = Unbound
    /\ trace = <<>>
    /\ NasIdle
    /\ CorrIdle

\* lines 67-73 and the first test of the for loop on line 77
TrainStart ==
    /\ pc = "start"
    /\ LET s == ResumeEpoch(auto_resume, ckpt_epoch) IN
        /\ start_epoch' = s
        /\ trace' = trace \o <<StartLog(s, max_epoch)>>
        /\ IF InRange(s, max_epoch)
           THEN cur_epoch' = s /\ pc' = "train_epoch"
           ELSE cur_epoch' = cur_epoch /\ pc' = "close"
    /\ UNCHANGED <<auto_resume, ckpt_clean, max_epoch, ckpt_epoch, evalEpochs,
                   ckptEpochs, num_splits>>
    /\ UNCHANGED <<nasVars, corrVars>>

\* lines 78-79
TrainEpoch ==
    /\ pc = "train_epoch"
    /\ trace' = trace \o <<Ev("train_epoch", "train", cur_epoch),
                           Ev("write_epoch", "train", cur_epoch)>>
    /\ pc' = "eval"
    /\ UNCHANGED <<auto_resume, ckpt_clean, max_epoch, ckpt_epoch, evalEpochs,
                   ckptEpochs, num_splits, start_epoch, cur_epoch>>
    /\ UNCHANGED <<nasVars, corrVars>>

\* lines 80-84
TrainEval ==
    /\ pc = "eval"
    /\ trace' = trace \o EvalCalls(cur_epoch, num_splits)
    /\ pc' = "ckpt"
    /\ UNCHANGED <<auto_resume, ckpt_clean, max_epoch, ckpt_epoch, evalEpochs,
                   ckptEpochs, num_splits, start_epoch, cur_epoch>>
    /\ UNCHANGED <<nasVars, corrVars>>

\* lines 85-86 and the next test of the for loop on line 77
TrainCkpt ==
    /\ pc = "ckpt"
    /\ trace' = trace \o CkptCalls(cur_epoch)
    /\ IF InRange(cur_epoch + 1, max_epoch)
       THEN cur_epoch' = cur_epoch + 1 /\ pc' = "train_epoch"
       ELSE cur_epoch' = cur_epoch /\ pc' = "close"
    /\ UNCHANGED <<auto_resume, ckpt_clean, max_epoch, ckpt_epoch, evalEpochs,
                   ckptEpochs, num_splits, start_epoch>>
    /\ UNCHANGED <<nasVars, corrVars>>

\* lines 87-88
TrainClose ==
    /\ pc = "close"
    /\ trace' = trace \o CloseLoggers(0, num_splits)
    /\ pc' = "clean"
    /\ UNCHANGED <<auto_resume, ckpt_clean, max_epoch, ckpt_epoch, evalEpochs,
                   ckptEpochs, num_splits, start_epoch, cur_epoch>>
    /\ UNCHANGED <<nasVars, corrVars>>

\* lines 89-92
TrainFinish ==
    /\ pc = "clean"
    /\ trace' = trace \o CleanCalls(ckpt_clean) \o <<Ev("log_task_done", "-", Unbound)>>
    /\ pc' = "done"
    /\ UNCHANGED <<auto_resume, ckpt_clean, max_epoch, ckpt_epoch, evalEpochs,
                   ckptEpochs, num_splits, start_epoch, cur_epoch>>
    /\ UNCHANGED <<nasVars, corrVars>>

NextTrain ==
    \/ TrainStart
    \/ TrainEpoch
    \/ TrainEval
    \/ TrainCkpt
    \/ TrainClose
    \/ TrainFinish

SpecTrain == InitTrain /\ [][NextTrain]_vars

\* ------------------------------------------------------------------ train_nas
\* the model object: which invocation produced it and how many training
\* epochs its weights have seen
ThisRun(n) == [run |-> "this", trained |-> n]
\* nothing stored at model_path
Absent == [run |-> "none", trained |-> 0]
\* an object a previous invocation left at the same model_path
Stale == [run |-> "previous", trained |-> 0]

\* counter, best_val_result = 0, -1
Sentinel == -1

\* if val_accuracy > best_val_result
IsNewBest_ge(v, best) == v >= best
IsNewBest(v, best) == v > best

\* i=1  # only for validation set: eval_epoch; write_epoch
NasEvalCalls_all_splits(e) == EvalSplits(1, num_splits, e)
NasEvalCalls(e) == <<Ev("eval_epoch", "val", e), Ev("write_epoch", "val", e)>>

\* torch.save(model, model_path): the file holds a snapshot of the object
TorchSave(m, file) == m

InitNas ==
    /\ TrainConfigs
    /\ evalEpochs = {}
    /\ num_splits = 3
    /\ pc = "nas_start"
    /\ start_epoch = 0
    /\ cur_epoch = Unbound
    /\ trace = <<>>
    /\ best_val_result = Unbound
    /\ model = ThisRun(0)
    /\ model_file \in {Absent, Stale}
    /\ val_history = <<>>
    /\ CorrIdle

\* lines 98-112 and the first test of the for loop on line 113;
\* load_ckpt restores into model the weights of the epoch it returns
NasStart ==
    /\ pc = "nas_start"
    /\ LET s == ResumeEpoch(auto_resume, ckpt_epoch) IN
        /\ start_epoch' = s
        /\ model' = ThisRun(s)
        /\ trace' = trace \o <<StartLog(s, max_epoch)>>
        /\ IF InRange(s, max_epoch)
           THEN cur_epoch' = s /\ pc' = "nas_train_epoch"
           ELSE cur_epoch' = cur_epoch /\ pc' = "nas_load"
    /\ best_val_result' = Sentinel
    /\ UNCHANGED <<auto_resume, ckpt_clean, max_epoch, ckpt_epoch, evalEpochs,
                   ckptEpochs, num_splits, model_file, val_history>>
    /\ UNCHANGED corrVars

\* lines 114-117
NasTrainEpoch ==
    /\ pc = "nas_train_epoch"
    /\ trace' = trace \o <<Ev("train_epoch", "train", cur_epoch),
                           Ev("write_epoch", "train", cur_epoch)>>
    /\ model' = [model EXCEPT !.trained = @ + 1]
    /\ pc' = "nas_eval"
    /\ UNCHANGED <<auto_resume, ckpt_clean, max_epoch, ckpt_epoch, evalEpochs,
                   ckptEpochs, num_splits, start_epoch, cur_epoch,
                   best_val_result, model_file, val_history>>
    /\ UNCHANGED corrVars

\* lines 119-129; val_accuracy = stats[metric] is whatever the logger reports
NasEval ==
    /\ pc = "nas_eval"
    /\ \E val_accuracy \in 0..MaxMetric :
        /\ val_history' = Append(val_history, val_accuracy)
        /\ IF IsNewBest(val_accuracy, best_val_result)
           THEN /\ best_val_result' = val_accuracy
                /\ model_file' = TorchSave(model, model_file)
                /\ trace' = trace \o NasEvalCalls(cur_epoch)
                                  \o <<Ev("torch_save", "-", cur_epoch)>>
           ELSE /\ best_val_result' = best_val_result
                /\ model_file' = model_file
                /\ trace' = trace \o NasEvalCalls(cur_epoch)
    /\ pc' = "nas_ckpt"
    /\ UNCHANGED <<auto_resume, ckpt_clean, max_epoch, ckpt_epoch, evalEpochs,
                   ckptEpochs, num_splits, start_epoch, cur_epoch, model>>
    /\ UNCHANGED corrVars

\* lines 138-139 and the next test of the for loop on line 113
NasCkpt ==
    /\ pc = "nas_ckpt"
    /\ trace' = trace \o CkptCalls(cur_epoch)
    /\ IF InRange(cur_epoch + 1, max_epoch)
       THEN cur_epoch' = cur_epoch + 1 /\ pc' = "nas_train_epoch"
       ELSE cur_epoch' = cur_epoch /\ pc' = "nas_load"
    /\ UNCHANGED <<auto_resume, ckpt_clean, max_epoch, ckpt_epoch, evalEpochs,
                   ckptEpochs, num_splits, start_epoch>>
    /\ UNCHANGED <<nasVars, corrVars>>

\* line 142: model = torch.load(model_path, ...); raises when nothing is stored
NasLoad ==
    /\ pc = "nas_load"
    /\ IF model_file = Absent
       THEN /\ pc' = "FileNotFoundError"
            /\ UNCHANGED <<model, trace>>
       ELSE /\ pc' = "nas_test"
            /\ model' = model_file
            /\ trace' = Append(trace, Ev("torch_load", "-", Unbound))
    /\ UNCHANGED <<auto_resume, ckpt_clean, max_epoch, ckpt_epoch, evalEpochs,
                   ckptEpochs, num_splits, start_epoch, cur_epoch,
                   best_val_result, model_file, val_history>>
    /\ UNCHANGED corrVars

\* lines 143-148: eval_epoch on the test split, then write_epoch(cur_epoch),
\* which raises NameError when the loop never bound cur_epoch
NasTest ==
    /\ pc = "nas_test"
    /\ IF cur_epoch = Unbound
       THEN /\ trace' = Append(trace, Ev("eval_epoch", "test", Unbound))
            /\ pc' = "NameError"
       ELSE /\ trace' = trace \o <<Ev("eval_epoch", "test", cur_epoch),
                                   Ev("write_epoch", "test", cur_epoch)>>
            /\ pc' = "nas_close"
    /\ UNCHANGED <<auto_resume, ckpt_clean, max_epoch, ckpt_epoch, evalEpochs,
                   ckptEpochs, num_splits, start_epoch, cur_epoch>>
    /\ UNCHANGED <<nasVars, corrVars>>

\* lines 151-152
NasClose ==
    /\ pc = "nas_close"
    /\ trace' = trace \o CloseLoggers(0, num_splits)
    /\ pc' = "nas_clean"
    /\ UNCHANGED <<auto_resume, ckpt_clean, max_epoch, ckpt_epoch, evalEpochs,
                   ckptEpochs, num_splits, start_epoch, cur_epoch>>
    /\ UNCHANGED <<nasVars, corrVars>>

\* lines 153-156
NasReturn ==
    /\ pc = "nas_clean"
    /\ trace' = trace \o CleanCalls(ckpt_clean)
    /\ pc' = "returned"
    /\ UNCHANGED <<auto_resume, ckpt_clean, max_epoch, ckpt_epoch, evalEpochs,
                   ckptEpochs, num_splits, start_epoch, cur_epoch>>
    /\ UNCHANGED <<nasVars, corrVars>>

NextNas ==
    \/ NasStart
    \/ NasTrainEpoch
    \/ NasEval
    \/ NasCkpt
    \/ NasLoad
    \/ NasTest
    \/ NasClose
    \/ NasReturn

SpecNas == InitNas /\ [][NextNas]_vars

\* ------------------------------------------------------------------ denas_corr.py
\* A configuration file is a list of (key, value) pairs in file order; keys are
\* numbered so that they can be ordered.
ConfigKeys == {1, 2}
ConfigValues == {0, 1, 2}
\* key 1 varies between candidates; the file lists its keys in either order
RawConfig(x, reversed) ==
    IF reversed THEN <<<<2, 0>>, <<1, x>>>> ELSE <<<<1, x>>, <<2, 0>>>>
RawConfigs == {RawConfig(x, r) : x \in ConfigValues, r \in BOOLEAN}

\* nas_utils.order_dict: the pairs in ascending key order
RECURSIVE order_dict(_)
order_dict(c) ==
    IF c = <<>> THEN <<>>
    ELSE LET i == CHOOSE j \in 1..Len(c) : \A k \in 1..Len(c) : c[j][1] <= c[k][1]
             rest == SubSeq(c, 1, i - 1) \o SubSeq(c, i + 1, Len(c))
         IN <<c[i]>> \o order_dict(rest)

\* nas_utils.seri_dict: the ordered pairs written out one after the other
RECURSIVE seri_dict(_)
seri_dict(c) == IF c = <<>> THEN <<>> ELSE <<c[1][1], c[1][2]>> \o seri_dict(Tail(c))

CanonKeys == {seri_dict(order_dict(c)) : c \in RawConfigs}

\* load_cfg(cfg, args): the global cfg after merging the file args.cfg_file names
load_cfg(f) == [k \in ConfigKeys |->
                  LET i == CHOOSE j \in 1..Len(file_config[f]) : file_config[f][j][1] = k
                  IN file_config[f][i][2]]
CfgValues == {[k \in ConfigKeys |-> IF k = 1 THEN x ELSE 0] : x \in ConfigValues}

\* runner(args): the proxy score of the model built from the cfg merged from
\* args.cfg_file, which line 86 has just set to f
runner_previous_cfg_file(f) == zen_score[load_cfg(IF cfg_file = 0 THEN f ELSE cfg_file)]
runner(f) == zen_score[load_cfg(f)]

\* trained scores the dictionary may hold, proxy scores zen_nas may return
TrainScores == {1, 2}
ProxyScores == {1, 2}

\* os.listdir followed by random.shuffle: any order of the n files
Shuffles(n) ==
    {p \in [1..n -> 1..n] : \A i, j \in 1..n : p[i] = p[j] => i = j}

\* ---- scipy.stats.spearmanr: Pearson correlation of the average ranks.
\* Rank2(x, i) is twice the average rank of x[i] in x.
Rank2(x, i) ==
    2 * Cardinality({j \in 1..Len(x) : x[j] < x[i]})
      + Cardinality({j \in 1..Len(x) : x[j] = x[i]}) + 1

\* the ranks of all n observations
RECURSIVE Ranks(_, _)
Ranks(x, n) == IF n = 0 THEN <<>> ELSE Append(Ranks(x, n - 1), Rank2(x, n))

\* sum of a[i] * b[i] and sum of a[i] over i in 1..n
RECURSIVE SumProd(_, _, _)
SumProd(a, b, n) == IF n = 0 THEN 0 ELSE a[n] * b[n] + SumProd(a, b, n - 1)
RECURSIVE SumTo(_, _)
SumTo(a, n) == IF n = 0 THEN 0 ELSE a[n] + SumTo(a, n - 1)

RECURSIVE Gcd(_, _)
Gcd(a, b) == IF b = 0 THEN a ELSE Gcd(b, a % b)

\* the correlation as sign and reduced fraction of its square; "nan" for fewer
\* than two observations or a constant input
spearmanr(x, y) ==
    LET n == Len(x)
        r == Ranks(x, n)
        q == Ranks(y, n)
        Sxy == n * SumProd(r, q, n) - SumTo(r, n) * SumTo(q, n)
        Sxx == n * SumProd(r, r, n) - SumTo(r, n) * SumTo(r, n)
        Syy == n * SumProd(q, q, n) - SumTo(q, n) * SumTo(q, n)
        g == Gcd(Sxy * Sxy, Sxx * Syy)
    IN IF n < 2 \/ Sxx = 0 \/ Syy = 0 THEN <<"nan", 0, 1>>
       ELSE IF Sxy = 0 THEN <<"zero", 0, 1>>
       ELSE <<IF Sxy > 0 THEN "pos" ELSE "neg", (Sxy * Sxy) \div g, (Sxx * Syy) \div g>>

\* lines 90-95: the trained score joins its list only on a dictionary hit
NextTrainList(lst, key) ==
    IF key \in DOMAIN model_key_dict THEN Append(lst, model_key_dict[key]) ELSE lst

\* lines 90-96: the proxy score joins its list only on a dictionary hit
NextDenasList_no_skip(lst, key, score) == Append(lst, score)
NextDenasList(lst, key, score) ==
    IF key \in DOMAIN model_key_dict THEN Append(lst, score) ELSE lst

\* line 98: the two whole lists are handed to spearmanr
CorrInput_newest(tl, dl) == <<<<tl[Len(tl)]>>, <<dl[Len(dl)]>>>>
CorrInput(tl, dl) == <<tl, dl>>

InitCorr ==
    /\ TrainIdle
    /\ NasIdle
    /\ pc = "scan"
    \* the folder holds n files, numbered in ascending order of their content;
    \* odd-numbered files list their keys in reverse order
    /\ \E n \in 1..MaxFiles :
        /\ \E x \in [1..n -> ConfigValues] :
              /\ \A i \in 1..(n - 1) : x[i] <= x[i + 1]
              /\ file_config = [f \in 1..n |-> RawConfig(x[f], f % 2 = 1)]
        /\ model_config_list \in Shuffles(n)
    /\ zen_score \in [CfgValues -> ProxyScores]
    /\ \E D \in SUBSET CanonKeys : model_key_dict \in [D -> TrainScores]
    /\ idx = 1
    /\ cfg_file = 0
    /\ train_score_list = <<>>
    /\ denas_score_list = <<>>
    /\ log = <<>>

\* lines 80-101: one iteration of the per-candidate loop
Candidate ==
    /\ pc = "scan"
    /\ idx <= Len(model_config_list)
    /\ LET model_yaml_file == model_config_list[idx]
           model_config == file_config[model_yaml_file]
           denas_score == runner(model_yaml_file)
           key == seri_dict(order_dict(model_config))
           tl == NextTrainList(train_score_list, key)
           dl == NextDenasList(denas_score_list, key, denas_score)
       IN /\ cfg_file' = model_yaml_file
          /\ train_score_list' = tl
          /\ denas_score_list' = dl
          /\ log' = IF key \in DOMAIN model_key_dict
                    THEN Append(log, [idx |-> idx - 1,
                                      train_score |-> model_key_dict[key],
                                      denas_score |-> denas_score,
                                      spearman_corr |->
                                          spearmanr(CorrInput(tl, dl)[1],
                                                    CorrInput(tl, dl)[2])])
                    ELSE log
    /\ idx' = idx + 1
    /\ UNCHANGED <<model_config_list, file_config, zen_score, model_key_dict, pc>>
    /\ UNCHANGED <<auto_resume, ckpt_clean, max_epoch, ckpt_epoch, evalEpochs,
                   ckptEpochs, num_splits, start_epoch, cur_epoch, trace>>
    /\ UNCHANGED nasVars

\* the for loop on line 80 is exhausted: the script falls off its end
ScanDone ==
    /\ pc = "scan"
    /\ idx > Len(model_config_list)
    /\ pc' = "finished"
    /\ UNCHANGED <<model_config_list, file_config, zen_score, model_key_dict, idx,
                   cfg_file, train_score_list, denas_score_list, log>>
    /\ UNCHANGED <<auto_resume, ckpt_clean, max_epoch, ckpt_epoch, evalEpochs,
                   ckptEpochs, num_splits, start_epoch, cur_epoch, trace>>
    /\ UNCHANGED nasVars

NextCorr ==
    \/ Candidate
    \/ ScanDone

SpecCorr == InitCorr /\ [][NextCorr]_vars

\* ================================================================== claims
\* ---- reading the trace
Ops(op) == SelectSeq(trace, LAMBDA ev : ev.op = op)
EpochsOf(op) == [i \in 1..Len(Ops(op)) |-> Ops(op)[i].epoch]
\* the epochs s, s+1, ..., m-1 in ascending order
Ascending(s, m) == [i \in 1..(m - s) |-> s + i - 1]
LoopOps == {"train_epoch", "write_epoch", "eval_epoch", "save_ckpt"}
LoopEvents == SelectSeq(trace, LAMBDA ev : ev.op \in LoopOps)
EpochEvents(e) == SelectSeq(LoopEvents, LAMBDA ev : ev.epoch = e)

\* C3: in train, with starting epoch s <= M, train_epoch runs exactly M - s
\* times, once for each epoch s..M-1 in ascending order; when s = M neither
\* train_epoch nor eval_epoch runs and 'already done' is logged instead of
\* 'start from epoch'.
C3_TrainEpochCount ==
    (pc = "done" /\ start_epoch <= max_epoch) =>
        /\ EpochsOf("train_epoch") = Ascending(start_epoch, max_epoch)
        /\ Len(Ops("train_epoch")) = max_epoch - start_epoch
        /\ start_epoch = max_epoch =>
            /\ Ops("train_epoch") = <<>>
            /\ Ops("eval_epoch") = <<>>
            /\ Len(Ops("log_already_done")) = 1
            /\ Ops("log_start_from") = <<>>

C3_Witness ==
    /\ pc = "done"
    /\ auto_resume
    /\ start_epoch = 1
    /\ max_epoch = 3
    /\ EpochsOf("train_epoch") = <<1, 2>>

\* C4 as stated: in train, once 'already done' is logged for s = M, no logger
\* is closed, no checkpoint is saved or cleaned and the completion message is
\* not logged.
C4_NoFurtherWork ==
    (start_epoch = max_epoch /\ Ops("log_already_done") # <<>>) =>
        /\ Ops("close") = <<>>
        /\ Ops("save_ckpt") = <<>>
        /\ Ops("clean_ckpt") = <<>>
        /\ Ops("log_task_done") = <<>>

\* C4 amended: in train, when s = M the routine logs 'already done' and runs
\* no training epoch, evaluation or checkpoint save; it still closes every
\* logger, cleans the checkpoints exactly when cfg.train.ckpt_clean is set, and
\* logs the completion message last.
C4_AlreadyDoneStillFinalises ==
    (pc = "done" /\ start_epoch = max_epoch) =>
        /\ trace[1].op = "log_already_done"
        /\ LoopEvents = <<>>
        /\ Len(Ops("close")) = num_splits
        /\ Len(Ops("clean_ckpt")) = (IF ckpt_clean THEN 1 ELSE 0)
        /\ trace[Len(trace)].op = "log_task_done"
        /\ Len(Ops("log_task_done")) = 1

C4_Witness ==
    /\ pc = "done"
    /\ start_epoch = max_epoch
    /\ ~ckpt_clean
    /\ num_splits = 3
    /\ Len(Ops("close")) = 3

\* what one epoch e of train's loop must have called, in order
ExpectedTrainEpoch(e) ==
    <<Ev("train_epoch", "train", e), Ev("write_epoch", "train", e)>>
    \o (IF e \in evalEpochs /\ num_splits >= 2
        THEN <<Ev("eval_epoch", "val", e), Ev("write_epoch", "val", e)>> ELSE <<>>)
    \o (IF e \in evalEpochs /\ num_splits >= 3
        THEN <<Ev("eval_epoch", "test", e), Ev("write_epoch", "test", e)>> ELSE <<>>)
    \o (IF e \in ckptEpochs THEN <<Ev("save_ckpt", "-", e)>> ELSE <<>>)

\* C6: in train, every epoch e of the loop runs train_epoch, then eval_epoch
\* exactly when is_eval_epoch(e), once per non-training split in the order
\* 'val', 'test', then save_ckpt(e) exactly when is_ckpt_epoch(e); epochs do
\* not interleave.  With both predicates false every epoch still trains.
C6_EvalAndCkptFollowPredicates ==
    pc = "done" =>
        /\ \A e \in 0..(max_epoch - 1) :
              EpochEvents(e) = (IF start_epoch <= e THEN ExpectedTrainEpoch(e) ELSE <<>>)
        /\ \A i \in 1..(Len(LoopEvents) - 1) :
              LoopEvents[i].epoch <= LoopEvents[i + 1].epoch
        /\ \A i \in 1..Len(LoopEvents) :
              LoopEvents[i].epoch \in start_epoch..(max_epoch - 1)

C6_Witness ==
    /\ pc = "done"
    /\ start_epoch = 0
    /\ max_epoch = 3
    /\ num_splits = 3
    /\ evalEpochs = {1}
    /\ ckptEpochs = {2}
    /\ EpochsOf("train_epoch") = <<0, 1, 2>>
    /\ Len(Ops("eval_epoch")) = 2
    /\ Len(Ops("save_ckpt")) = 1

\* ---- train_nas
RECURSIVE SeqMax(_)
SeqMax(q) ==
    IF Len(q) = 1 THEN q[1]
    ELSE LET m == SeqMax(Tail(q)) IN IF q[1] >= m THEN q[1] ELSE m

\* the validation passes whose metric exceeds -1 and every earlier metric
NewMaxima ==
    {i \in 1..Len(val_history) :
        /\ val_history[i] > -1
        /\ \A j \in 1..(i - 1) : val_history[i] > val_history[j]}

\* C2: in train_nas, best_val_result equals the maximum of the validation
\* metrics seen, and the model is saved to the best-model path exactly at the
\* epochs whose metric strictly exceeds every earlier one (and -1).
C2_BestIsMaxSavedAtNewMaxima ==
    /\ val_history # <<>> => best_val_result = SeqMax(val_history)
    /\ Len(Ops("torch_save")) = Cardinality(NewMaxima)
    /\ {Ops("torch_save")[i].epoch : i \in 1..Len(Ops("torch_save"))}
         = {start_epoch + i - 1 : i \in NewMaxima}

C2_Witness ==
    /\ pc = "returned"
    /\ val_history = <<1, 2, 2>>
    /\ best_val_result = 2
    /\ EpochsOf("torch_save") = <<0, 1>>

\* C5 as stated: in train_nas, when s = M neither train_epoch nor any
\* eval_epoch (the post-loop test evaluation included) is called.
C5_NoEvalWhenAlreadyDone ==
    (start_epoch = max_epoch /\ Ops("log_already_done") # <<>>) =>
        /\ Ops("train_epoch") = <<>>
        /\ Ops("eval_epoch") = <<>>

\* the epoch at which best_val_result was last updated in this call
BestEpoch ==
    start_epoch - 1
      + (CHOOSE i \in NewMaxima : \A j \in NewMaxima : j <= i)

\* C7 as stated: in train_nas, the model evaluated on the test split is this
\* run's model as it was at the epoch where best_val_result was last updated,
\* in every call.
C7_TestModelIsBestOfThisRun ==
    (\E i \in 1..Len(trace) : trace[i].op = "eval_epoch" /\ trace[i].split = "test") =>
        /\ NewMaxima # {}
        /\ model = [run |-> "this", trained |-> BestEpoch + 1]

\* train_epoch and eval_epoch calls only
TrainEvalCalls == SelectSeq(trace, LAMBDA ev : ev.op \in {"train_epoch", "eval_epoch"})

\* C10: in train_nas every epoch s..M-1 runs one train_epoch then one
\* eval_epoch on 'val' and none on 'test'; 'test' is evaluated exactly once,
\* after the last epoch; the loop runs to M whatever the metrics are, and a
\* call that has an epoch to run always reaches its return.
C10_ValEachEpochTestOnce ==
    /\ (start_epoch < max_epoch /\ pc # "nas_start") =>
          pc \notin {"FileNotFoundError", "NameError"}
    /\ Len(Ops("train_epoch")) - 1 <= Len(val_history)
    /\ Len(val_history) <= Len(Ops("train_epoch"))
    /\ \A i \in 1..Len(TrainEvalCalls) :
          TrainEvalCalls[i].split = "test" => i = Len(TrainEvalCalls)
    /\ pc = "returned" =>
          LET n == max_epoch - start_epoch IN
          /\ n >= 1
          /\ Len(TrainEvalCalls) = 2 * n + 1
          /\ \A i \in 1..n :
                /\ TrainEvalCalls[2 * i - 1] = Ev("train_epoch", "train", start_epoch + i - 1)
                /\ TrainEvalCalls[2 * i] = Ev("eval_epoch", "val", start_epoch + i - 1)
          /\ TrainEvalCalls[2 * n + 1] = Ev("eval_epoch", "test", max_epoch - 1)
          /\ Len(val_history) = n

C10_Witness ==
    /\ pc = "returned"
    /\ start_epoch = 0
    /\ max_epoch = 3
    /\ val_history = <<2, 1, 0>>
    /\ Len(Ops("train_epoch")) = 3

\* ---- denas_corr.py
KeyOf(f) == seri_dict(order_dict(file_config[f]))
Hit(f) == KeyOf(f) \in DOMAIN model_key_dict
\* the proxy score of the model file f describes
ProxyOf(f) == zen_score[load_cfg(f)]
\* the candidates among the first k of the shuffled list that are in the dictionary
Matched(k) == SelectSeq(SubSeq(model_config_list, 1, k), Hit)

\* C1: after any prefix of the candidate list both lists are as long as the
\* number of candidates so far found in the dictionary, and entry i of each
\* belongs to the i-th such candidate: its dictionary value and its proxy
\* score.  A candidate missing from the dictionary adds to neither.
C1_ListsAligned ==
    LET m == Matched(idx - 1) IN
    /\ Len(train_score_list) = Len(m)
    /\ Len(denas_score_list) = Len(m)
    /\ \A i \in 1..Len(m) :
          /\ train_score_list[i] = model_key_dict[KeyOf(m[i])]
          /\ denas_score_list[i] = ProxyOf(m[i])

C1_Witness ==
    /\ pc = "finished"
    /\ Len(model_config_list) = 3
    /\ ~Hit(model_config_list[1])
    /\ Hit(model_config_list[2])
    /\ ~Hit(model_config_list[3])
    /\ Len(train_score_list) = 1

\* C8: the correlation logged for the k-th matched candidate is Spearman's
\* over exactly the first k matched (trained, proxy) pairs, in order.
C8_SpearmanOverHistory ==
    LET m == Matched(idx - 1) IN
    /\ Len(log) = Len(m)
    /\ \A k \in 1..Len(log) :
          log[k].spearman_corr =
              spearmanr([i \in 1..k |-> model_key_dict[KeyOf(m[i])]],
                        [i \in 1..k |-> ProxyOf(m[i])])

C8_Witness ==
    /\ pc = "finished"
    /\ Len(log) = 3
    /\ log[1].spearman_corr[1] = "nan"
    /\ log[2].spearman_corr = <<"pos", 1, 1>>
    /\ log[3].spearman_corr[1] = "pos"
    /\ log[3].spearman_corr[3] > 1

====
